---- MODULE Spec2Model ----
(***************************************************************************)
(* Model of the repository tree builder (RepositoryTree.show and           *)
(* RepositoryTree.buildItemInfoTree) together with the Git classifier       *)
(* (GitService.testGitRepository, GitService.getGitStatus).                 *)
(*                                                                          *)
(* The recursion of buildItemInfoTree is an explicit call stack.  The       *)
(* filesystem and the process runner are the environment: every stat,       *)
(* every step of a directory iterator and every subprocess returns one of   *)
(* the outcomes the interface allows, and what they returned is recorded    *)
(* (probes, statuses, listings) so that the built tree can be compared      *)
(* with what the filesystem actually contained.                             *)
(***************************************************************************)
EXTENDS Integers, Sequences, FiniteSets, TLC

\* ------------------------------------------------------------------ bounds
\* Largest --depth option tried.
MaxDepthOption == 2
\* Largest number of entries one directory iterator yields.
MaxListing == 2
\* Largest number of entries all directory iterators of one run yield.
MaxEntries == 3
\* Largest number of failing filesystem and subprocess calls in one run
\* (the stat of the root path not counted).
MaxFaults == 1

\* ------------------------------------------------------------------- names
\* File names are sequences of characters, so that startsWith(".") is
\* computed on the name itself.
NamePlain == <<"a">>
NameNodeModules == <<"n", "m">>
NameDotGit == <<".", "g">>

EntryNames == {NamePlain, NameNodeModules, NameDotGit}

\* Resolved root paths (sequences of segments) the program is started on.
RootPaths == {<<NamePlain>>, <<NameNodeModules>>}

\* The skipDirectories option: empty, or the CLI default reduced to the
\* names of the model ("node_modules", ".git").
SkipChoices == {{NameNodeModules}}

\* Deno.DirEntry kinds: isFile, isDirectory, or neither (symlink, device).
EntryKinds == {"file", "dir", "symlink"}

DirEntries == [name : EntryNames, kind : EntryKinds]

\* --------------------------------------------------------------- ItemInfo
File == "File"
Directory == "Directory"
RepoDirectory == "RepoDirectory"
Unknown == "Unknown"

\* gitStatus is optional: <<>> is "undefined", <<s>> is the status s.
NoGitStatus == <<>>

\* childEntry.name.startsWith(".")
StartsWithDot(name) == Len(name) > 0 /\ name[1] = "."

\* join(entry.path, childEntry.name)
Join(path, name) == Append(path, name)

\* resolvedPath.split("/").pop()
LastSegment(path) == path[Len(path)]

\* ---------------------------------------------------------- Git classifier
\* Outcomes of fileSystem.stat(join(path, ".git")).
StatOutcomes == {"dir", "file", "NotFound", "PermissionDenied"}

\* TestGitRepositoryOutcome whose catch block answers false to every error.
TestGitRepositoryCatchesAll(stat) ==
  [returned |-> IF stat = "dir" THEN "true" ELSE "false", thrown |-> "none"]

\* GitService.testGitRepository on the outcome of stat(join(path, ".git")):
\* the value it returns ("none" when it throws) and the error it throws
\* ("none" when it returns).  The catch block throws the error it caught.
TestGitRepositoryOutcome(stat) ==
  CASE stat = "dir" -> [returned |-> "true", thrown |-> "none"]
    [] stat = "file" -> [returned |-> "false", thrown |-> "none"]
    [] stat = "NotFound" -> [returned |-> "false", thrown |-> "none"]
    [] OTHER -> [returned |-> "none", thrown |-> stat]

\* GitService.testGitRepository: "true", "false" or "throws".
TestGitRepository(stat) ==
  LET outcome == TestGitRepositoryOutcome(stat)
  IN IF outcome.thrown # "none" THEN "throws" ELSE outcome.returned

\* Outcomes of one process-runner call: stdout empty, stdout non-empty,
\* an Error thrown, a non-Error value thrown.
RunOutcomes == {"empty", "lines", "throwError", "throwOther"}

\* Outcomes of "git rev-list @{upstream}..HEAD": those of any call, and the
\* branch without an upstream, where git exits with a failure status, stdout
\* is empty and stderr holds the message of git.
RevListOutcomes == RunOutcomes \cup {"noUpstream"}

\* The git commands getGitStatus hands to the process runner, in order:
\* rev-list runs only after a "git status" that printed nothing (line 180).
RunnerCalls(statusRun) ==
  IF statusRun = "empty" THEN <<"status", "rev-list">> ELSE <<"status">>

\* GitService.getGitStatus on the outcomes of "git status" and of
\* "git rev-list @{upstream}..HEAD".  threw is TRUE when the call rejects;
\* logged is TRUE when the catch block logged an error.
GetGitStatus(statusRun, revListRun) ==
  IF statusRun = "throwError"
  THEN [threw |-> FALSE, logged |-> TRUE,
        status |-> [hasWorkingChanges |-> FALSE, hasUnpushedChanges |-> "false"]]
  ELSE IF statusRun = "throwOther"
  THEN [threw |-> TRUE, logged |-> FALSE,
        status |-> [hasWorkingChanges |-> FALSE, hasUnpushedChanges |-> "undefined"]]
  ELSE IF statusRun = "lines"
  THEN [threw |-> FALSE, logged |-> FALSE,
        status |-> [hasWorkingChanges |-> TRUE, hasUnpushedChanges |-> "undefined"]]
  ELSE IF revListRun = "throwError"
  THEN [threw |-> FALSE, logged |-> TRUE,
        status |-> [hasWorkingChanges |-> FALSE, hasUnpushedChanges |-> "false"]]
  ELSE IF revListRun = "throwOther"
  THEN [threw |-> TRUE, logged |-> FALSE,
        status |-> [hasWorkingChanges |-> FALSE, hasUnpushedChanges |-> "undefined"]]
  ELSE [threw |-> FALSE, logged |-> FALSE,
        status |-> [hasWorkingChanges |-> FALSE,
                    hasUnpushedChanges |->
                      IF revListRun = "lines" THEN "true" ELSE "false"]]

\* ------------------------------------------------------------------- state
VARIABLES
  options,     \* effectiveOptions of show(): path, skipDirectories, depth, includeHidden
  pc,          \* position of show(): "stat", "build", "display", "done", "rejected"
  stack,       \* call stack of buildItemInfoTree, innermost call last
  root,        \* <<>> until the root call returned, then <<root ItemInfo>>
  log,         \* messages written to the logger, in order
  displayed,   \* calls of displayItemInfoTree made by show(), in order
  probes,      \* path -> what testGitRepository(path) did
  statuses,    \* path -> what getGitStatus(path) returned
  listings,    \* path -> entries yielded by readDir(path) and how it ended
  yielded,     \* number of directory entries yielded so far
  faults,      \* number of filesystem and subprocess failures so far
  rootStat,    \* what fileSystem.stat(resolvedPath) did in show(), "none" before
  counts,      \* numbers of buildItemInfoTree calls, .git probes and runCommand calls
  calls        \* the call of a single function made on its own, with its result

vars == <<options, pc, stack, root, log, displayed, probes, statuses, listings, yielded,
          faults, rootStat, counts, calls>>

EmptyMap == [p \in {} |-> 0]

Put(map, key, val) == [k \in (DOMAIN map) \cup {key} |-> IF k = key THEN val ELSE map[k]]

Top == stack[Len(stack)]

SetTop(frame) == [stack EXCEPT ![Len(stack)] = frame]

Pop == SubSeq(stack, 1, Len(stack) - 1)

\* A call of buildItemInfoTree(entry, currentDepth, options).
NewFrame(path, name, isDirectory, depth) ==
  [path |-> path, isDirectory |-> isDirectory, currentDepth |-> depth, at |-> "type",
   itemInfo |-> [name |-> name, type |-> File, isDirectory |-> "undefined",
                 children |-> <<>>,
                 allPathsLeadToRepo |-> FALSE, containsRepo |-> FALSE,
                 gitStatus |-> NoGitStatus]]

Init ==
  /\ options \in [path : RootPaths, skipDirectories : SkipChoices,
                  depth : -1..MaxDepthOption, includeHidden : BOOLEAN]
  /\ pc = "stat"
  /\ stack = <<>>
  /\ root = <<>>
  /\ log = <<>>
  /\ displayed = <<>>
  /\ probes = EmptyMap
  /\ statuses = EmptyMap
  /\ listings = EmptyMap
  /\ yielded = 0
  /\ faults = 0
  /\ rootStat = "none"
  /\ counts = [visits |-> 0, probes |-> 0, invocations |-> 0]
  /\ calls = <<>>

LogEntry(level, msg, path) == [level |-> level, msg |-> msg, path |-> path]

\* ------------------------------------------------------------------ show()
\* Outcomes of fileSystem.stat(resolvedPath).
RootStatOutcomes == {"dir", "file", "neither", "NotFound", "PermissionDenied"}

\* RootStatMessage whose instanceof test of line 149 never succeeds.
RootStatMessageNeverNotFound(stat) ==
  IF stat = "neither" THEN "NeitherFileNorDirectory" ELSE "ErrorAccessingPath"

\* Lines 142-153: the message show() logs when it cannot use the root path.
RootStatMessage(stat) ==
  CASE stat = "neither" -> "NeitherFileNorDirectory"
    [] stat = "NotFound" -> "PathNotFound"
    [] OTHER -> "ErrorAccessingPath"

\* show(), up to the first call of buildItemInfoTree.
ShowStat ==
  /\ pc = "stat"
  /\ \E stat \in RootStatOutcomes :
       /\ IF stat \in {"dir", "file"}
          THEN /\ stack' = <<NewFrame(options.path, LastSegment(options.path),
                                      stat = "dir", 0)>>
               /\ pc' = "build"
               /\ log' = log
          ELSE /\ stack' = stack
               /\ pc' = "done"
               /\ log' = Append(log, LogEntry("error", RootStatMessage(stat), options.path))
       /\ rootStat' = stat
  /\ UNCHANGED <<options, root, displayed, probes, statuses, listings, yielded, faults,
                 counts, calls>>

\* ------------------------------------------------------- buildItemInfoTree
IsDirectoryType(type) == type = Directory \/ type = RepoDirectory

\* AfterClassify without the skip test of lines 60 and 63.
AfterClassifyNoSkip(frame) ==
  LET isDirectory == IsDirectoryType(frame.itemInfo.type)
      reachedMaxDepth == frame.currentDepth >= options.depth
  IN IF isDirectory /\ ~reachedMaxDepth THEN "iter" ELSE "ret"

\* AfterClassify applying lines 57-65 only below the root.
AfterClassifyRootExempt(frame) ==
  LET isDirectory == IsDirectoryType(frame.itemInfo.type)
      reachedMaxDepth == frame.currentDepth >= options.depth
      skip == frame.itemInfo.name \in options.skipDirectories
  IN IF isDirectory /\ (frame.currentDepth = 0 \/ ~(skip \/ reachedMaxDepth))
     THEN "iter"
     ELSE "ret"

\* AfterClassify without the depth test of line 59.
AfterClassifyNoDepthLimit(frame) ==
  LET isDirectory == IsDirectoryType(frame.itemInfo.type)
      skip == frame.itemInfo.name \in options.skipDirectories
  IN IF isDirectory /\ ~skip THEN "iter" ELSE "ret"

\* AfterClassify with "currentDepth > options.depth" for line 59.
AfterClassifyOffByOne(frame) ==
  LET isDirectory == IsDirectoryType(frame.itemInfo.type)
      reachedMaxDepth == frame.currentDepth > options.depth
      skip == frame.itemInfo.name \in options.skipDirectories
  IN IF isDirectory /\ ~(skip \/ reachedMaxDepth) THEN "iter" ELSE "ret"

\* Lines 57-65: once type and gitStatus are set, the call goes on to read the
\* directory ("iter") unless the item is no directory, is skipped or sits at
\* the maximum depth; then it returns at once ("ret").
AfterClassify(frame) ==
  LET isDirectory == IsDirectoryType(frame.itemInfo.type)
      reachedMaxDepth == frame.currentDepth >= options.depth
      skip == frame.itemInfo.name \in options.skipDirectories
  IN IF isDirectory /\ ~(skip \/ reachedMaxDepth) THEN "iter" ELSE "ret"

\* CatchMessage naming an entry below the directory.
CatchMessageNamesEntry(error, path) ==
  IF error = "PermissionDenied"
  THEN LogEntry("warn", "PermissionDeniedReadDir", Join(path, NamePlain))
  ELSE LogEntry("error", "ErrorReadingDirectory", Join(path, NamePlain))

\* CatchMessage whose instanceof test never succeeds.
CatchMessageNeverDenied(error, path) ==
  LogEntry("error", "ErrorReadingDirectory", path)

\* The catch block around the directory loop (lines 95-103).
CatchMessage(error, path) ==
  IF error = "PermissionDenied"
  THEN LogEntry("warn", "PermissionDeniedReadDir", path)
  ELSE LogEntry("error", "ErrorReadingDirectory", path)

\* How a directory iterator stands: the entries yielded and how it ended
\* ("open", "done", "PermissionDenied", "OtherError", "abandoned").
ListingOf(path) ==
  IF path \in DOMAIN listings THEN listings[path] ELSE [entries |-> <<>>, end |-> "open"]

\* AddChild without lines 90-93: a repository child leaves containsRepo alone.
AddChildIgnoresRepo(itemInfo, childItemInfo) ==
  [itemInfo EXCEPT
     !.children = Append(@, childItemInfo),
     !.allPathsLeadToRepo = IF ~childItemInfo.allPathsLeadToRepo THEN FALSE ELSE @]

\* AddChild that assigns [child] to children where line 84 pushes.
AddChildForgetsEarlier(itemInfo, childItemInfo) ==
  [itemInfo EXCEPT
     !.children = <<childItemInfo>>,
     !.allPathsLeadToRepo = IF ~childItemInfo.allPathsLeadToRepo THEN FALSE ELSE @,
     !.containsRepo = IF childItemInfo.type = RepoDirectory THEN TRUE ELSE @]

\* AddChild with unshift for push at line 84.
AddChildInFront(itemInfo, childItemInfo) ==
  [itemInfo EXCEPT
     !.children = <<childItemInfo>> \o @,
     !.allPathsLeadToRepo = IF ~childItemInfo.allPathsLeadToRepo THEN FALSE ELSE @,
     !.containsRepo = IF childItemInfo.type = RepoDirectory THEN TRUE ELSE @]

\* AddChild without lines 86-88: a child never clears the parent's flag.
AddChildKeepsFlag(itemInfo, childItemInfo) ==
  [itemInfo EXCEPT
     !.children = Append(@, childItemInfo),
     !.containsRepo = IF childItemInfo.type = RepoDirectory THEN TRUE ELSE @]

\* Lines 84-93: the parent takes the ItemInfo its recursive call returned.
AddChild(itemInfo, childItemInfo) ==
  [itemInfo EXCEPT
     !.children = Append(@, childItemInfo),
     !.allPathsLeadToRepo = IF ~childItemInfo.allPathsLeadToRepo THEN FALSE ELSE @,
     !.containsRepo = IF childItemInfo.type = RepoDirectory THEN TRUE ELSE @]

\* "return itemInfo" of the innermost call of stk: show() receives the root,
\* a parent call pushes the child and goes on with its loop.
ReturnFrom(stk) ==
  IF Len(stk) = 1
  THEN /\ stack' = <<>>
       /\ root' = <<stk[1].itemInfo>>
       /\ pc' = "display"
  ELSE /\ stack' = [SubSeq(stk, 1, Len(stk) - 1) EXCEPT
                      ![Len(stk) - 1].itemInfo = AddChild(@, stk[Len(stk)].itemInfo)]
       /\ root' = root
       /\ pc' = pc

\* The innermost call goes on after its classification.
Proceed(frame) ==
  IF AfterClassify(frame) = "iter"
  THEN /\ stack' = SetTop([frame EXCEPT !.at = "iter"])
       /\ UNCHANGED <<root, pc>>
  ELSE ReturnFrom(SetTop(frame))

\* An exception leaves the innermost call.  The caller is either show(),
\* which does not catch it, or the loop of the parent call, whose catch block
\* logs it under the parent's path and lets the parent return what it has.
Raise(error, logBefore) ==
  IF Len(stack) = 1
  THEN /\ stack' = <<>>
       /\ pc' = "rejected"
       /\ root' = root
       /\ log' = logBefore
       /\ listings' = listings
  ELSE LET parent == stack[Len(stack) - 1]
       IN /\ log' = Append(logBefore, CatchMessage(error, parent.path))
          /\ listings' = Put(listings, parent.path,
                             [ListingOf(parent.path) EXCEPT !.end = "abandoned"])
          /\ ReturnFrom(Pop)

\* Lines 43-51: the ItemInfo is created, its type comes from getItemType.
GetItemType ==
  /\ pc = "build" /\ stack # <<>> /\ Top.at = "type"
  /\ IF Top.isDirectory
     THEN \E stat \in StatOutcomes :
            LET isGitRepo == TestGitRepository(stat)
                type == IF isGitRepo = "true" THEN RepoDirectory ELSE Directory
                typed == [Top EXCEPT !.itemInfo.type = type,
                                     !.itemInfo.allPathsLeadToRepo = (type = RepoDirectory)]
            IN /\ stat = "PermissionDenied" => faults < MaxFaults
               /\ faults' = IF stat = "PermissionDenied" THEN faults + 1 ELSE faults
               /\ probes' = Put(probes, Top.path, isGitRepo)
               /\ IF isGitRepo = "throws"
                  THEN Raise(TestGitRepositoryOutcome(stat).thrown, log)
                  ELSE IF type = RepoDirectory
                  THEN /\ stack' = SetTop([typed EXCEPT !.at = "status"])
                       /\ UNCHANGED <<pc, root, log, listings>>
                  ELSE /\ Proceed(typed)
                       /\ UNCHANGED <<log, listings>>
     ELSE /\ Proceed(Top)
          /\ UNCHANGED <<log, listings, probes, faults>>
  /\ counts' = [counts EXCEPT !.visits = @ + 1,
                              !.probes = IF Top.isDirectory THEN @ + 1 ELSE @]
  /\ UNCHANGED <<options, displayed, statuses, yielded, rootStat, calls>>

\* WithGitStatus keeping the status only of a repository with changes.
WithGitStatusIfDirty(itemInfo, status) ==
  IF status.hasWorkingChanges THEN [itemInfo EXCEPT !.gitStatus = <<status>>] ELSE itemInfo

\* PassedOver without the negation of options.includeHidden.
PassedOverWhenIncluded(name) == options.includeHidden /\ StartsWithDot(name)

\* Line 69: the loop passes over a hidden entry unless includeHidden is set.
PassedOver(name) == ~options.includeHidden /\ StartsWithDot(name)

\* Line 54: itemInfo.gitStatus = <value returned by getGitStatus>.
WithGitStatus(itemInfo, status) == [itemInfo EXCEPT !.gitStatus = <<status>>]

\* Lines 53-55: a repository directory gets its gitStatus.
AttachGitStatus ==
  /\ pc = "build" /\ stack # <<>> /\ Top.at = "status"
  /\ \E statusRun \in RunOutcomes, revListRun \in RevListOutcomes :
       LET got == GetGitStatus(statusRun, revListRun)
           failed == got.threw \/ got.logged
           logged == IF got.logged
                     THEN Append(log, LogEntry("error", "ErrorGettingGitStatus", Top.path))
                     ELSE log
           withStatus == [Top EXCEPT !.itemInfo = WithGitStatus(@, got.status)]
       IN /\ failed => faults < MaxFaults
          /\ faults' = IF failed THEN faults + 1 ELSE faults
          /\ counts' = [counts EXCEPT !.invocations = @ + Len(RunnerCalls(statusRun))]
          /\ IF got.threw
             THEN /\ statuses' = Put(statuses, Top.path, <<>>)
                  /\ Raise("Error", logged)
             ELSE /\ statuses' = Put(statuses, Top.path, <<got.status>>)
                  /\ Proceed(withStatus)
                  /\ log' = logged
                  /\ listings' = listings
  /\ UNCHANGED <<options, displayed, probes, yielded, rootStat, calls>>

\* Lines 68-83: the iterator yields one more entry; a hidden entry is
\* passed over, any other entry starts the recursive call.
ReadDirYield ==
  /\ pc = "build" /\ stack # <<>> /\ Top.at = "iter"
  /\ yielded < MaxEntries
  /\ Len(ListingOf(Top.path).entries) < MaxListing
  /\ \E childEntry \in DirEntries :
       LET cur == ListingOf(Top.path)
       IN /\ \A i \in 1..Len(cur.entries) : cur.entries[i].name # childEntry.name
          /\ listings' = Put(listings, Top.path,
                             [cur EXCEPT !.entries = Append(cur.entries, childEntry)])
          /\ IF PassedOver(childEntry.name)
             THEN stack' = stack
             ELSE stack' = Append(stack,
                                  NewFrame(Join(Top.path, childEntry.name), childEntry.name,
                                           childEntry.kind = "dir", Top.currentDepth + 1))
  /\ yielded' = yielded + 1
  /\ UNCHANGED <<options, pc, root, log, displayed, probes, statuses, faults, rootStat, counts, calls>>

\* The iterator is exhausted: the loop ends and the call returns (line 106).
ReadDirEnd ==
  /\ pc = "build" /\ stack # <<>> /\ Top.at = "iter"
  /\ listings' = Put(listings, Top.path, [ListingOf(Top.path) EXCEPT !.end = "done"])
  /\ ReturnFrom(stack)
  /\ UNCHANGED <<options, log, displayed, probes, statuses, yielded, faults, rootStat, counts, calls>>

\* Lines 95-103: the iterator throws, before or after some entries; the
\* catch block logs and the call returns.
ReadDirThrow ==
  /\ pc = "build" /\ stack # <<>> /\ Top.at = "iter"
  /\ faults < MaxFaults
  /\ \E error \in {"PermissionDenied", "OtherError"} :
       \* access is refused when the directory is opened, not between entries
       /\ error = "PermissionDenied" => ListingOf(Top.path).entries = <<>>
       /\ listings' = Put(listings, Top.path, [ListingOf(Top.path) EXCEPT !.end = error])
       /\ log' = Append(log, CatchMessage(error, Top.path))
  /\ faults' = faults + 1
  /\ ReturnFrom(stack)
  /\ UNCHANGED <<options, displayed, probes, statuses, yielded, rootStat, counts, calls>>

\* --------------------------------------------------------------- formatter
\* A formatted name: the name, the colour of its escape sequence ("none"
\* without one) and whether " (unknown item type)" follows the name.
Formatted(name, colour, marker) == [name |-> name, colour |-> colour, marker |-> marker]

\* gitStatus?.hasWorkingChanges: truthy only for a status that reports them.
HasWorkingChanges(gitStatus) ==
  gitStatus # NoGitStatus /\ gitStatus[1].hasWorkingChanges

\* gitStatus?.aheadBy === 0, aheadBy being undefined on a status without it.
AheadByIsZero(gitStatus) ==
  /\ gitStatus # NoGitStatus
  /\ "aheadBy" \in DOMAIN gitStatus[1]
  /\ gitStatus[1].aheadBy = 0

\* gitStatus?.hasUnpushedChanges: truthy only when the field is true.
HasUnpushedChanges(gitStatus) ==
  /\ gitStatus # NoGitStatus
  /\ "hasUnpushedChanges" \in DOMAIN gitStatus[1]
  /\ gitStatus[1].hasUnpushedChanges = "true"

\* formatRepoItem of src/format.ts.
FormatRepoItem(item) ==
  LET isSynced == AheadByIsZero(item.gitStatus)
      isDirty == HasWorkingChanges(item.gitStatus) \/ ~isSynced
  IN Formatted(item.name, IF isDirty THEN "red" ELSE "green", FALSE)

\* formatRepoItem of the formatter that reads hasUnpushedChanges.
FormatRepoItemByUnpushed(item) ==
  LET isDirty == HasWorkingChanges(item.gitStatus) \/ HasUnpushedChanges(item.gitStatus)
  IN Formatted(item.name, IF isDirty THEN "red" ELSE "green", FALSE)

FormatRepoLevelItem(item) ==
  CASE item.type = File -> Formatted(item.name, "black", FALSE)
    [] item.type = Directory -> Formatted(item.name, "white", FALSE)
    [] item.type = RepoDirectory -> FormatRepoItem(item)
    [] OTHER -> Formatted(item.name, "none", TRUE)

\* FormatDefaultItem that colours a directory as formatRepoLevelItem does.
FormatDefaultItemWhiteDirectory(item) ==
  CASE item.type = File -> Formatted(item.name, "black", FALSE)
    [] item.type = Directory -> Formatted(item.name, "white", FALSE)
    [] item.type = RepoDirectory -> FormatRepoItem(item)
    [] OTHER -> Formatted(item.name, "none", FALSE)

FormatDefaultItem(item) ==
  CASE item.type = File -> Formatted(item.name, "black", FALSE)
    [] OTHER -> Formatted(item.name, "none", FALSE)

\* displayItemInfoTree: the lines written to the console, in order.  indent
\* is a sequence of four-character segments, "bar" for the one with a
\* vertical bar and "space" for the blank one; prefix is "", "branch" for
\* the glyph of a child with later siblings or "corner" for the last child.
\* OwnLines that writes nothing for a last child.
OwnLinesButLastChild(indent, prefix, formattedName) ==
  IF indent # <<>> /\ prefix # "corner"
  THEN <<[indent |-> indent, prefix |-> prefix, text |-> formattedName]>>
  ELSE IF prefix = ""
  THEN <<[indent |-> <<>>, prefix |-> "", text |-> formattedName]>>
  ELSE <<>>

\* Lines 68-72: the console.log calls for the node itself.
OwnLines(indent, prefix, formattedName) ==
  IF indent # <<>>
  THEN <<[indent |-> indent, prefix |-> prefix, text |-> formattedName]>>
  ELSE IF prefix = ""
  THEN <<[indent |-> <<>>, prefix |-> "", text |-> formattedName]>>
  ELSE <<>>

\* NewIndent with the test of line 78 made on the corner glyph.
NewIndentBarAfterCorner(indent, prefix) ==
  Append(indent, IF prefix = "corner" THEN "bar" ELSE "space")

\* Line 78: the indent handed to the children.
NewIndent(indent, prefix) ==
  Append(indent, IF prefix = "branch" THEN "bar" ELSE "space")

\* Lines 76-77: the prefix handed to the child at index i.
NewPrefix(item, i) == IF i = Len(item.children) THEN "corner" ELSE "branch"

RECURSIVE DisplayItemInfoTree(_, _, _)
DisplayItemInfoTree(item, indent, prefix) ==
  LET formattedName ==
        IF item.containsRepo THEN FormatRepoLevelItem(item) ELSE FormatDefaultItem(item)
      RECURSIVE OfChildren(_)
      OfChildren(i) ==
        IF i > Len(item.children)
        THEN <<>>
        ELSE DisplayItemInfoTree(item.children[i], NewIndent(indent, prefix),
                                 NewPrefix(item, i))
               \o OfChildren(i + 1)
  IN OwnLines(indent, prefix, formattedName) \o OfChildren(1)

\* The lines of a sequence of displayItemInfoTree calls.
RECURSIVE LinesOf(_)
LinesOf(displayCalls) ==
  IF displayCalls = <<>>
  THEN <<>>
  ELSE DisplayItemInfoTree(Head(displayCalls).item, Head(displayCalls).indent,
                           Head(displayCalls).prefix)
         \o LinesOf(Tail(displayCalls))

\* Lines 159-167: show() hands the tree to displayItemInfoTree.
Truthy(value) == value = "true"

DisplayCalls(item) ==
  IF Truthy(item.isDirectory) /\ Len(item.children) > 0
  THEN [i \in 1..Len(item.children) |->
          [item |-> item.children[i], indent |-> <<>>,
           prefix |-> IF i = Len(item.children) THEN "corner" ELSE "branch"]]
  ELSE <<[item |-> item, indent |-> <<>>, prefix |-> ""]>>

ShowDisplay ==
  /\ pc = "display"
  /\ displayed' = DisplayCalls(root[1])
  /\ pc' = "done"
  /\ UNCHANGED <<options, stack, root, log, probes, statuses, listings, yielded, faults, rootStat, counts, calls>>

\* ----------------------------------------------------------------- cli main
\* The exit status of the process: main awaits show() and does nothing else,
\* so the status is 0 when show() returns and 1 when its promise rejects.
ExitCode == IF pc = "rejected" THEN 1 ELSE 0

\* ------------------------------------------------------------ the built tree
\* Every node of the tree under item, with its path and recursion depth.
RECURSIVE NodesUnder(_, _, _)
NodesUnder(item, path, depth) ==
  {[item |-> item, path |-> path, depth |-> depth]}
    \cup UNION {NodesUnder(item.children[i], Join(path, item.children[i].name), depth + 1) :
                  i \in 1..Len(item.children)}

\* The nodes of the tree buildItemInfoTree returned to show().
TreeNodes == IF root = <<>> THEN {} ELSE NodesUnder(root[1], options.path, 0)

RECURSIVE HasRepoDescendant(_)
HasRepoDescendant(item) ==
  \E i \in 1..Len(item.children) :
    item.children[i].type = RepoDirectory \/ HasRepoDescendant(item.children[i])

\* C1: in every built tree, containsRepo of a node is true exactly when some
\* descendant of the node, at any depth below it, is a RepoDirectory.
C1_ContainsRepoIffRepoDescendant ==
  \A n \in TreeNodes : n.item.containsRepo <=> HasRepoDescendant(n.item)

\* C2: in every built tree, a RepoDirectory whose children are all plain
\* files has allPathsLeadToRepo = true.
C2_RepoOfFilesLeadsToRepo ==
  \A n \in TreeNodes :
    (/\ n.item.type = RepoDirectory
     /\ \A i \in 1..Len(n.item.children) : n.item.children[i].type = File)
      => n.item.allPathsLeadToRepo

\* C3: in every built tree, a node with a child whose allPathsLeadToRepo is
\* false has allPathsLeadToRepo false, and a RepoDirectory without children
\* has allPathsLeadToRepo true.
C3_AllPathsAggregation ==
  \A n \in TreeNodes :
    /\ (\E i \in 1..Len(n.item.children) : ~n.item.children[i].allPathsLeadToRepo)
         => ~n.item.allPathsLeadToRepo
    /\ (n.item.type = RepoDirectory /\ n.item.children = <<>>)
         => n.item.allPathsLeadToRepo

\* A repository whose flag was initialised true and forced to false by a
\* child, next to a repository without children that kept it.
C3_Witness ==
  /\ \E n \in TreeNodes :
       /\ n.item.type = RepoDirectory
       /\ \E i \in 1..Len(n.item.children) : ~n.item.children[i].allPathsLeadToRepo
  /\ \E n \in TreeNodes : n.item.type = RepoDirectory /\ n.item.children = <<>>

\* C4: in every built tree, a node at recursion depth >= the depth option has
\* no children, so no node lies deeper than the depth option.
C4_DepthLimit ==
  \A n \in TreeNodes :
    /\ n.depth >= options.depth => n.item.children = <<>>
    /\ n.depth <= (IF options.depth > 0 THEN options.depth ELSE 0)

\* A directory below the root that is not skipped and was cut off by the
\* depth option alone.
C4_Witness ==
  \E n \in TreeNodes :
    /\ n.depth = options.depth /\ n.depth > 0
    /\ IsDirectoryType(n.item.type)
    /\ n.item.name \notin options.skipDirectories
    /\ n.item.children = <<>>

\* The entries of a listing the loop does not pass over (line 69).
Visible(entries) ==
  SelectSeq(entries, LAMBDA e : options.includeHidden \/ ~StartsWithDot(e.name))

NamesOf(items) == [i \in 1..Len(items) |-> items[i].name]

\* The directory at path was read and its iterator ran to its end.
ListedToEnd(path) == path \in DOMAIN listings /\ listings[path].end = "done"

C6_SkippedDirectoryAbsent ==
  \A n \in TreeNodes :
    \A i \in 1..Len(n.item.children) :
      ~(/\ IsDirectoryType(n.item.children[i].type)
        /\ n.item.children[i].name \in options.skipDirectories)

\* C7: without includeHidden no child of any node has a name starting with
\* "."; with includeHidden every listed entry with such a name is a child of
\* the directory it was listed in, when that directory was read to its end.
C7_HiddenPolicy ==
  \A n \in TreeNodes :
    /\ ~options.includeHidden =>
         \A i \in 1..Len(n.item.children) : ~StartsWithDot(n.item.children[i].name)
    /\ (options.includeHidden /\ ListedToEnd(n.path)) =>
         \A i \in 1..Len(listings[n.path].entries) :
           StartsWithDot(listings[n.path].entries[i].name) =>
             \E j \in 1..Len(n.item.children) :
               n.item.children[j].name = listings[n.path].entries[i].name

\* A directory read to its end whose listing had a hidden entry before a
\* visible one, built without includeHidden.
C7_Witness ==
  /\ ~options.includeHidden
  /\ \E n \in TreeNodes :
       /\ ListedToEnd(n.path)
       /\ Len(listings[n.path].entries) = 2
       /\ StartsWithDot(listings[n.path].entries[1].name)
       /\ Len(n.item.children) = 1

\* C8: the names of the children of a directory that was read to its end are
\* the names of its listing without the hidden entries (when includeHidden
\* is false), in listing order, none twice and none missing.
C8_ChildrenFollowListing ==
  \A n \in TreeNodes :
    ListedToEnd(n.path) =>
      NamesOf(n.item.children) = NamesOf(Visible(listings[n.path].entries))

\* A directory with two children, both from its listing.
C8_Witness ==
  \E n \in TreeNodes :
    /\ ListedToEnd(n.path)
    /\ Len(n.item.children) = 2
    /\ n.item.children[1].name # n.item.children[2].name

\* C9: a node of the built tree has a gitStatus exactly when it is a
\* RepoDirectory, pruned or not, and that gitStatus is the value getGitStatus
\* returned for the node's path; getGitStatus is called for no other node.
C9_GitStatusIffRepo ==
  \A n \in TreeNodes :
    /\ (n.item.gitStatus # NoGitStatus) <=> (n.item.type = RepoDirectory)
    /\ n.item.type = RepoDirectory =>
         (n.path \in DOMAIN statuses /\ n.item.gitStatus = statuses[n.path])
    /\ n.item.type # RepoDirectory => n.path \notin DOMAIN statuses

\* A clean repository that was pruned by the skip set, below a plain directory.
C9_Witness ==
  \E n \in TreeNodes :
    /\ n.item.type = RepoDirectory
    /\ n.item.name \in options.skipDirectories
    /\ n.depth > 0
    /\ n.item.gitStatus # NoGitStatus
    /\ ~n.item.gitStatus[1].hasWorkingChanges

\* The build of the entry at path raised an exception.
BuildThrew(path) ==
  \/ path \in DOMAIN probes /\ probes[path] = "throws"
  \/ path \in DOMAIN statuses /\ statuses[path] = <<>>

\* The visible entries of the directory at path whose own build returned.
Returned(path) ==
  SelectSeq(Visible(listings[path].entries), LAMBDA e : ~BuildThrew(Join(path, e.name)))

\* The subtree under item holds everything the filesystem yielded below path.
RECURSIVE FullyBuilt(_, _)
FullyBuilt(item, path) ==
  IF path \in DOMAIN listings
  THEN /\ NamesOf(item.children) = NamesOf(Returned(path))
       /\ \A i \in 1..Len(item.children) :
            FullyBuilt(item.children[i], Join(path, item.children[i].name))
  ELSE item.children = <<>>

Parent(path) == SubSeq(path, 1, Len(path) - 1)

DeniedSubdirectories ==
  {p \in DOMAIN listings : listings[p].end = "PermissionDenied" /\ Len(p) > Len(options.path)}

Output == LinesOf(displayed)

\* ------------------------------------------------------------ listing errors
\* The directories whose readDir iterator raised an error, before its first
\* entry or after some entries.
FailedListings ==
  {p \in DOMAIN listings : listings[p].end \in {"PermissionDenied", "OtherError"}}

\* C11: whenever listing the entries of a directory raises an error, before
\* the first entry or after some entries were yielded, the build of that
\* directory returns normally and its node has no children.
C11_ListingErrorMeansNoChildren ==
  \A p \in FailedListings :
    /\ ~BuildThrew(p)
    /\ \A n \in TreeNodes : n.path = p => n.item.children = <<>>

\* ------------------------------------------------------- root path failures
\* C12: when the stat of the root path raises NotFound, show() logs one
\* error that carries the resolved path, never starts buildItemInfoTree,
\* never calls displayItemInfoTree and writes no tree line.
C12_RootNotFoundIsReported ==
  rootStat = "NotFound" =>
    /\ log = <<LogEntry("error", "PathNotFound", options.path)>>
    /\ pc = "done"
    /\ stack = <<>> /\ root = <<>>
    /\ probes = EmptyMap /\ statuses = EmptyMap /\ listings = EmptyMap
    /\ displayed = <<>>
    /\ Output = <<>>

\* show() returned after the stat of the root path raised NotFound.
C12_Witness ==
  rootStat = "NotFound" /\ pc = "done" /\ Len(log) = 1

\* show() has come to its end, by returning or by rejecting.
ShowEnded == pc \in {"done", "rejected"}

\* C13: a root path that is not found ends the run as a hard error, with a
\* non-zero exit status of the process, while a run whose only errors are
\* failed directory listings ends with exit status 0.
C13_RootNotFoundIsHardError ==
  ShowEnded =>
    /\ rootStat = "NotFound" => ExitCode # 0
    /\ (rootStat # "NotFound" /\ FailedListings # {}) => ExitCode = 0

\* ------------------------------------------------ functions called alone
ItemTypes == {File, Directory, RepoDirectory, Unknown}

\* The values a gitStatus field can hold: the GitStatus of GitService and
\* the GitStatus with aheadBy that formatRepoItem of src/format.ts reads.
GitStatusValues ==
  [hasWorkingChanges : BOOLEAN, hasUnpushedChanges : {"true", "false", "undefined"}]
    \cup [hasWorkingChanges : BOOLEAN, aheadBy : {0, 1}]

\* Nodes without children.
LeafItems ==
  [name : {NamePlain}, type : ItemTypes, containsRepo : BOOLEAN,
   gitStatus : {NoGitStatus} \cup {<<status>> : status \in GitStatusValues},
   children : {<<>>}]

\* The children given to a node handed to displayItemInfoTree.
ChildItems == {item \in LeafItems : item.gitStatus = NoGitStatus}

\* The trees handed to displayItemInfoTree: a node with up to two children.
DisplayedItems ==
  {[item EXCEPT !.children = children] :
     item \in LeafItems,
     children \in {<<>>} \cup {<<c>> : c \in ChildItems}
                        \cup {<<c, d>> : c \in ChildItems, d \in ChildItems}}

Indents == {<<>>, <<"bar">>, <<"space">>}
Prefixes == {"", "branch", "corner"}

\* No show() is running; one function is called on inputs of its domain.
FunctionInit ==
  /\ options = [path |-> <<NamePlain>>, skipDirectories |-> {NameNodeModules},
                depth |-> 0, includeHidden |-> FALSE]
  /\ pc = "function"
  /\ stack = <<>> /\ root = <<>> /\ log = <<>> /\ displayed = <<>>
  /\ probes = EmptyMap /\ statuses = EmptyMap /\ listings = EmptyMap
  /\ yielded = 0 /\ faults = 0
  /\ rootStat = "none"
  /\ counts = [visits |-> 0, probes |-> 0, invocations |-> 0]
  /\ calls = <<>>

CallTestGitRepository ==
  /\ pc = "function" /\ calls = <<>>
  /\ \E stat \in StatOutcomes :
       calls' = <<[fn |-> "testGitRepository", stat |-> stat,
                   outcome |-> TestGitRepositoryOutcome(stat)]>>
  /\ UNCHANGED <<options, pc, stack, root, log, displayed, probes, statuses, listings,
                 yielded, faults, rootStat, counts>>

CallGetGitStatus ==
  /\ pc = "function" /\ calls = <<>>
  /\ \E statusRun \in RunOutcomes, revListRun \in RevListOutcomes :
       calls' = <<[fn |-> "getGitStatus", statusRun |-> statusRun,
                   revListRun |-> revListRun,
                   ran |-> RunnerCalls(statusRun),
                   got |-> GetGitStatus(statusRun, revListRun)]>>
  /\ UNCHANGED <<options, pc, stack, root, log, displayed, probes, statuses, listings,
                 yielded, faults, rootStat, counts>>

\* The directories the working directory is taken from.
WorkingDirectories == {<<NamePlain>>, <<NameNodeModules>>}

\* fileSystem.chdir(directory): the working directory afterwards and the
\* error thrown; a directory that does not exist leaves it as it was.
Chdir(cwd, directory, exists) ==
  IF exists
  THEN [cwd |-> directory, thrown |-> "none"]
  ELSE [cwd |-> cwd, thrown |-> "NotFound"]

\* GetGitStatusChdir going back to originalCwd at the end of the try block
\* instead of in a finally block.
GetGitStatusChdirNoFinally(originalCwd, path, pathExists, runs) ==
  LET entered == Chdir(originalCwd, path, pathExists)
      threw == \/ entered.thrown # "none"
               \/ runs.status = "throw" \/ runs.revParse = "throw"
               \/ runs.config = "throw"
               \/ runs.config = "remote" /\ runs.revList = "throw"
      left == IF threw THEN entered ELSE Chdir(entered.cwd, originalCwd, TRUE)
  IN [status |-> [aheadBy |-> IF ~threw /\ runs.config = "remote" /\ runs.revList = "ahead"
                               THEN 1 ELSE 0,
                  hasWorkingChanges |-> ~threw /\ runs.status = "lines"],
      logged |-> threw,
      cwd |-> left.cwd]

\* getGitStatus of src/git.ts on the outcomes of chdir(path) and, in runs,
\* of the commands git status, git rev-parse, git config and git rev-list: the
\* status returned, whether the catch block logged, and the working
\* directory after the finally block.
GetGitStatusChdir(originalCwd, path, pathExists, runs) ==
  LET entered == Chdir(originalCwd, path, pathExists)
      threw == \/ entered.thrown # "none"
               \/ runs.status = "throw" \/ runs.revParse = "throw"
               \/ runs.config = "throw"
               \/ runs.config = "remote" /\ runs.revList = "throw"
      left == Chdir(entered.cwd, originalCwd, TRUE)
  IN [status |-> [aheadBy |-> IF ~threw /\ runs.config = "remote" /\ runs.revList = "ahead"
                               THEN 1 ELSE 0,
                  hasWorkingChanges |-> ~threw /\ runs.status = "lines"],
      logged |-> threw,
      cwd |-> left.cwd]

CallGetGitStatusChdir ==
  /\ pc = "function" /\ calls = <<>>
  /\ \E originalCwd \in WorkingDirectories, path \in WorkingDirectories,
        pathExists \in BOOLEAN,
        runs \in [status : {"empty", "lines", "throw"}, revParse : {"ok", "throw"},
                  config : {"remote", "noRemote", "throw"},
                  revList : {"none", "ahead", "throw"}] :
       calls' = <<[fn |-> "getGitStatusChdir", cwdBefore |-> originalCwd,
                   path |-> path, pathExists |-> pathExists,
                   got |-> GetGitStatusChdir(originalCwd, path, pathExists, runs)]>>
  /\ UNCHANGED <<options, pc, stack, root, log, displayed, probes, statuses, listings,
                 yielded, faults, rootStat, counts>>

CallDisplayItemInfoTree ==
  /\ pc = "function" /\ calls = <<>>
  /\ \E item \in DisplayedItems, indent \in Indents, prefix \in Prefixes :
       calls' = <<[fn |-> "displayItemInfoTree", item |-> item,
                   indent |-> indent, prefix |-> prefix,
                   lines |-> DisplayItemInfoTree(item, indent, prefix)]>>
  /\ UNCHANGED <<options, pc, stack, root, log, displayed, probes, statuses, listings,
                 yielded, faults, rootStat, counts>>

\* The calls made of the function fn.
CallsOf(fn) == {i \in 1..Len(calls) : calls[i].fn = fn}

\* C14: testGitRepository returns true exactly when the stat of path/.git
\* succeeds and reports a directory, returns false when the stat raises
\* NotFound or reports something that is no directory, and throws every
\* other error of the stat as it caught it.
C14_TestGitRepositoryContract ==
  \A i \in CallsOf("testGitRepository") :
    LET stat == calls[i].stat
        outcome == calls[i].outcome
    IN /\ outcome.returned = "true" <=> stat = "dir"
       /\ stat \in {"file", "NotFound"} =>
            outcome.returned = "false" /\ outcome.thrown = "none"
       /\ stat = "dir" => outcome.thrown = "none"
       /\ stat \notin {"dir", "file", "NotFound"} =>
            outcome.returned = "none" /\ outcome.thrown = stat

\* testGitRepository was called on a path whose .git cannot be read.
C14_Witness ==
  \E i \in CallsOf("testGitRepository") :
    calls[i].stat = "PermissionDenied" /\ calls[i].outcome.thrown = "PermissionDenied"

\* C15: no failure of the process runner inside getGitStatus propagates,
\* whichever command fails and whatever value is thrown: the call returns a
\* status with hasWorkingChanges = false, the node stays a RepoDirectory of
\* the tree and show() does not reject.
C15_GitStatusFailureIsContained ==
  /\ \A i \in CallsOf("getGitStatus") :
       LET failed == \/ calls[i].statusRun \in {"throwError", "throwOther"}
                     \/ /\ calls[i].statusRun = "empty"
                        /\ calls[i].revListRun \in {"throwError", "throwOther"}
       IN failed => ~calls[i].got.threw /\ ~calls[i].got.status.hasWorkingChanges
  /\ \A p \in DOMAIN statuses :
       /\ statuses[p] # <<>>
       /\ root # <<>> => \E n \in TreeNodes : n.path = p /\ n.item.type = RepoDirectory

\* C16: hasUnpushedChanges is computed only when there are no working
\* changes: with working changes rev-list is not run and the field is
\* undefined, and without working changes on a branch that has no upstream
\* the field is undefined, not false.
C16_UnpushedUndefinedWithoutUpstream ==
  \A i \in CallsOf("getGitStatus") :
    ~calls[i].got.threw =>
      /\ calls[i].got.status.hasWorkingChanges =>
           /\ calls[i].ran = <<"status">>
           /\ calls[i].got.status.hasUnpushedChanges = "undefined"
      /\ (calls[i].statusRun = "empty" /\ calls[i].revListRun = "noUpstream") =>
           calls[i].got.status.hasUnpushedChanges = "undefined"

\* ---------------------------------------------------------------- rendering
\* C17: when show() ran on a root directory with at least one built child,
\* no line is written for the root itself and every first-level child has
\* a line of its own that carries the branch glyph of its position.
C17_RootLineSuppressed ==
  (pc = "done" /\ root # <<>> /\ rootStat = "dir" /\ root[1].children # <<>>) =>
    /\ \A k \in 1..Len(Output) : Output[k].prefix # ""
    /\ \A i \in 1..Len(root[1].children) :
         \E k \in 1..Len(Output) :
           /\ Output[k].text.name = root[1].children[i].name
           /\ Output[k].prefix =
                IF i = Len(root[1].children) THEN "corner" ELSE "branch"

\* The nodes of kind Unknown in the tree under item.
RECURSIVE UnknownNodes(_)
UnknownNodes(item) ==
  LET RECURSIVE Below(_)
      Below(i) == IF i > Len(item.children)
                  THEN 0
                  ELSE UnknownNodes(item.children[i]) + Below(i + 1)
  IN (IF item.type = Unknown THEN 1 ELSE 0) + Below(1)

\* C18: displayItemInfoTree writes, for every node of kind Unknown, a line
\* with the name followed by " (unknown item type)", whatever the
\* containsRepo flag of the node, the indent and the prefix.
C18_UnknownAlwaysMarked ==
  \A i \in CallsOf("displayItemInfoTree") :
    Cardinality({k \in 1..Len(calls[i].lines) : calls[i].lines[k].text.marker})
      = UnknownNodes(calls[i].item)

\* C19: a RepoDirectory of the built tree is formatted red exactly when the
\* status getGitStatus returned for it reports working changes or unpushed
\* commits, and green otherwise, an undefined hasUnpushedChanges included;
\* this for formatRepoItem of src/format.ts and for the one reading
\* hasUnpushedChanges.
C19_RepoColourFollowsStatus ==
  \A n \in TreeNodes :
    (n.item.type = RepoDirectory /\ n.item.gitStatus # NoGitStatus) =>
      LET status == n.item.gitStatus[1]
          dirty == status.hasWorkingChanges \/ status.hasUnpushedChanges = "true"
          colour == IF dirty THEN "red" ELSE "green"
      IN /\ FormatRepoItemByUnpushed(n.item).colour = colour
         /\ FormatRepoItem(n.item).colour = colour

\* The text displayItemInfoTree writes for a node.
TextOf(item) == DisplayItemInfoTree(item, <<>>, "")[1].text

\* C20: an entry that is neither a file nor a directory becomes a node of
\* kind Unknown whose text carries " (unknown item type)", as a child of
\* the directory that lists it and as the root path of show().
C20_NeitherFileNorDirectoryIsUnknown ==
  /\ \A n \in TreeNodes :
       n.path \in DOMAIN listings =>
         \A i \in 1..Len(n.item.children) :
           (/\ i <= Len(Returned(n.path))
            /\ Returned(n.path)[i].name = n.item.children[i].name
            /\ Returned(n.path)[i].kind = "symlink")
             => /\ n.item.children[i].type = Unknown
                /\ TextOf(n.item.children[i]).marker
  /\ (rootStat = "neither" /\ pc = "done") =>
       /\ root # <<>> /\ root[1].type = Unknown
       /\ \E k \in 1..Len(Output) : Output[k].text.marker

\* ------------------------------------------------------- shape of the output
\* The nodes under item in depth-first pre-order, each with its depth.
RECURSIVE PreOrder(_, _)
PreOrder(item, depth) ==
  LET RECURSIVE Below(_)
      Below(i) == IF i > Len(item.children)
                  THEN <<>>
                  ELSE PreOrder(item.children[i], depth + 1) \o Below(i + 1)
  IN <<[name |-> item.name, depth |-> depth]>> \o Below(1)

\* C21: the displayItemInfoTree calls show() makes write exactly one line
\* for every node of the tree, each node once, in depth-first pre-order: a
\* node before its descendants, siblings in the order of children.
C21_OneLinePerNodeInPreOrder ==
  (pc = "done" /\ root # <<>>) =>
    [k \in 1..Len(Output) |->
       [name |-> Output[k].text.name, depth |-> Len(Output[k].indent)]]
      = PreOrder(root[1], 0)

\* A tree of three levels whose root has two children was written.
C21_Witness ==
  /\ pc = "done" /\ root # <<>>
  /\ Len(root[1].children) = 2
  /\ root[1].children[1].children # <<>>
  /\ Len(Output) = 4

\* What the claim says of the line of each node under item: its prefix by
\* whether the node has later siblings, its indent by whether each of its
\* ancestors has.  laterSiblings holds one flag per ancestor, hasLater is
\* the flag of the node itself; the node show() starts from is no child.
RECURSIVE ExpectedShape(_, _, _, _)
ExpectedShape(item, laterSiblings, hasLater, isChild) ==
  LET RECURSIVE Below(_)
      Below(i) ==
        IF i > Len(item.children)
        THEN <<>>
        ELSE ExpectedShape(item.children[i], Append(laterSiblings, hasLater),
                           i < Len(item.children), TRUE)
               \o Below(i + 1)
  IN <<[indent |-> [j \in 1..Len(laterSiblings) |->
                      IF laterSiblings[j] THEN "bar" ELSE "space"],
        prefix |-> IF ~isChild THEN "" ELSE IF hasLater THEN "branch" ELSE "corner"]>>
       \o Below(1)

\* C22: in the output every child that is not the last of its parent has
\* the branch glyph and every last child the corner glyph, and the indent
\* of a line has a vertical bar in a column exactly when the ancestor of
\* that level has later siblings, four spaces otherwise.
C22_GlyphsAndIndent ==
  (pc = "done" /\ root # <<>>) =>
    [k \in 1..Len(Output) |-> [indent |-> Output[k].indent, prefix |-> Output[k].prefix]]
      = ExpectedShape(root[1], <<>>, FALSE, FALSE)

\* A line below a child that has a later sibling was written.
C22_Witness ==
  /\ pc = "done"
  /\ \E k \in 1..Len(Output) : Output[k].indent = <<"space", "bar">>
  /\ \E k \in 1..Len(Output) : Output[k].prefix = "branch"

\* ------------------------------------------------------ pruned repositories
\* The node is a repository that line 61 returned without reading it.
PrunedRepo(item, depth) ==
  /\ item.type = RepoDirectory
  /\ item.name \in options.skipDirectories \/ depth >= options.depth

\* C23: a directory with a .git directory that is pruned, by the skip set or
\* by the maximum depth, is a RepoDirectory node with its gitStatus
\* attached, allPathsLeadToRepo = true, containsRepo = false and no
\* children, and the parent holding it has containsRepo = true.
C23_PrunedRepoKeepsItsFlags ==
  \A n \in TreeNodes :
    /\ PrunedRepo(n.item, n.depth) =>
         /\ n.item.gitStatus # NoGitStatus
         /\ n.item.allPathsLeadToRepo
         /\ ~n.item.containsRepo
         /\ n.item.children = <<>>
    /\ (\E i \in 1..Len(n.item.children) : PrunedRepo(n.item.children[i], n.depth + 1))
         => n.item.containsRepo

\* The tree holds a repository pruned by the skip set alone and one pruned
\* by the maximum depth alone, each below a parent.
C23_Witness ==
  /\ \E n \in TreeNodes :
       \E i \in 1..Len(n.item.children) :
         /\ n.item.children[i].type = RepoDirectory
         /\ n.item.children[i].name \in options.skipDirectories
         /\ n.depth + 1 < options.depth
  /\ \E n \in TreeNodes :
       \E i \in 1..Len(n.item.children) :
         /\ n.item.children[i].type = RepoDirectory
         /\ n.item.children[i].name \notin options.skipDirectories
         /\ n.depth + 1 = options.depth

\* ------------------------------------------------------------ counted calls
\* The number of nodes under item, item included, whose type is in types.
RECURSIVE CountOfTypes(_, _)
CountOfTypes(item, types) ==
  LET RECURSIVE Below(_)
      Below(i) == IF i > Len(item.children)
                  THEN 0
                  ELSE CountOfTypes(item.children[i], types) + Below(i + 1)
  IN (IF item.type \in types THEN 1 ELSE 0) + Below(1)

\* C24: over a whole build in which nothing failed, the process runner was
\* invoked as many times as the tree has RepoDirectory nodes, one subprocess
\* for each status check, and .git was probed as many times as directories
\* were visited, once for each directory and never for a file.
C24_OneSubprocessPerRepo ==
  (pc \in {"display", "done"} /\ root # <<>> /\ faults = 0) =>
    /\ counts.invocations = CountOfTypes(root[1], {RepoDirectory})
    /\ counts.probes = CountOfTypes(root[1], {Directory, RepoDirectory})

\* ------------------------------------------------------- order of the build
IsPrefixOf(short, long) ==
  Len(short) <= Len(long) /\ SubSeq(long, 1, Len(short)) = short

\* The paths whose entry of map differs between this state and the next.
ChangedKeys(before, after) ==
  {p \in DOMAIN after : p \notin DOMAIN before \/ after[p] # before[p]}

\* One step of a sequential depth-first build.  Only the innermost call
\* runs: every probe and status call is made for its path and every listing
\* that moves is its own or, when it throws, that of its caller; the calls
\* below it stand still, so a directory takes its next entry only when the
\* whole subtree of the previous one is finished; and what a call has
\* received from a returned child is never touched again.
SequentialStep ==
  /\ Len(stack') <= Len(stack) + 1
  /\ \A k \in 1..Len(stack') :
       k <= Len(stack) =>
         /\ stack'[k].path = stack[k].path
         /\ k < Len(stack') => stack'[k] = stack[k]
         /\ IsPrefixOf(stack[k].itemInfo.children, stack'[k].itemInfo.children)
         /\ Len(stack'[k].itemInfo.children) > Len(stack[k].itemInfo.children) =>
              /\ k = Len(stack') /\ k < Len(stack)
              /\ Len(stack'[k].itemInfo.children) = Len(stack[k].itemInfo.children) + 1
  /\ ChangedKeys(probes, probes') \cup ChangedKeys(statuses, statuses')
       \subseteq (IF stack = <<>> THEN {} ELSE {Top.path})
  /\ ChangedKeys(listings, listings')
       \subseteq {stack[k].path : k \in {j \in 1..Len(stack) : j >= Len(stack) - 1}}
  /\ root' # root => root = <<>> /\ Len(stack) >= 1 /\ stack' = <<>>

\* C25: the build is sequential and depth-first: everything belonging to
\* the subtree of a listed child happens before the first probe of the next
\* child, a node is returned only after all of its children were returned,
\* and a returned node never changes.
C25_SequentialDepthFirst == [][SequentialStep]_vars

\* A directory is building its second entry after its first entry returned
\* with a child of its own.
C25_Witness ==
  /\ Len(stack) = 2
  /\ Len(stack[1].itemInfo.children) = 1
  /\ stack[1].itemInfo.children[1].children # <<>>
  /\ stack[2].at = "type"

\* ------------------------------------------------------ repo-aware context
\* C26: a node of a built tree whose containsRepo is false is written as
\* its bare name unless it is a file, which is black; a node whose
\* containsRepo is true is written in the colour of its kind; so a
\* RepoDirectory has its red or green status colour exactly when one of its
\* direct children is a RepoDirectory and is a bare name otherwise.
C26_ContextIsOwnContainsRepo ==
  \A n \in TreeNodes :
    LET text == TextOf(n.item)
        repoChild == \E i \in 1..Len(n.item.children) :
                       n.item.children[i].type = RepoDirectory
    IN /\ text.name = n.item.name /\ ~text.marker
       /\ n.item.type = File => text.colour = "black"
       /\ (n.item.type = Directory /\ ~n.item.containsRepo) => text.colour = "none"
       /\ (n.item.type = Directory /\ n.item.containsRepo) => text.colour = "white"
       /\ n.item.type = RepoDirectory =>
            /\ repoChild => text.colour \in {"red", "green"}
            /\ ~repoChild => text.colour = "none"

\* A repository written in its status colour with, as its child, a
\* repository written as a bare name, next to a directory without colour.
C26_Witness ==
  /\ pc = "done"
  /\ \E n \in TreeNodes :
       /\ n.item.type = RepoDirectory
       /\ TextOf(n.item).colour = "red"
       /\ \E i \in 1..Len(n.item.children) :
            /\ n.item.children[i].type = RepoDirectory
            /\ TextOf(n.item.children[i]).colour = "none"
       /\ \E i \in 1..Len(n.item.children) :
            /\ n.item.children[i].type = Directory
            /\ TextOf(n.item.children[i]).colour = "none"

\* ------------------------------------------------------- failing child build
\* The directories whose loop was left by an exception of a child's build.
AbandonedListings == {p \in DOMAIN listings : listings[p].end = "abandoned"}

CatchMessages == {"PermissionDeniedReadDir", "ErrorReadingDirectory"}

\* C27: when the build of a child entry throws, at its .git probe or at its
\* status call, the catch block of the parent's loop takes the exception:
\* one message is logged under the parent's path and none under the
\* child's, the parent returns normally, its children are exactly the
\* entries built before the failing one, which is the last entry read, and
\* its allPathsLeadToRepo and containsRepo follow from those children alone.
C27_ChildFailureEndsParentLoop ==
  \A p \in AbandonedListings :
    LET entries == Visible(listings[p].entries)
        failing == Join(p, entries[Len(entries)].name)
    IN /\ listings[p].entries # <<>>
       /\ listings[p].entries[Len(listings[p].entries)] = entries[Len(entries)]
       /\ BuildThrew(failing)
       /\ \E i \in 1..Len(log) : log[i].path = p /\ log[i].msg \in CatchMessages
       /\ \A i \in 1..Len(log) : log[i].msg \in CatchMessages => log[i].path # failing
       /\ \A k \in 1..Len(stack) : stack[k].path # p
       /\ p = options.path => root # <<>>
       /\ pc # "rejected"
       /\ root # <<>> =>
            \E n \in TreeNodes :
              /\ n.path = p
              /\ NamesOf(n.item.children) = NamesOf(SubSeq(entries, 1, Len(entries) - 1))
              /\ n.item.containsRepo <=>
                   \E i \in 1..Len(n.item.children) : n.item.children[i].type = RepoDirectory
              /\ n.item.allPathsLeadToRepo <=>
                   /\ n.item.type = RepoDirectory
                   /\ \A i \in 1..Len(n.item.children) :
                        n.item.children[i].allPathsLeadToRepo

\* The probe of the second entry of the root threw after the first entry,
\* a repository, was built, and show() went on to display the tree.
C27_Witness ==
  /\ pc = "done" /\ root # <<>>
  /\ options.path \in AbandonedListings
  /\ Len(listings[options.path].entries) = 2
  /\ Len(root[1].children) = 1
  /\ root[1].containsRepo

\* ------------------------------------------------------------- pruned root
\* C28: when the last segment of the root path is in the skip set, or the
\* depth option is <= 0, the root directory is never listed and the whole
\* output of show() is the line of the root.
C28_RootIsPrunedLikeAnyDirectory ==
  (/\ rootStat = "dir"
   /\ LastSegment(options.path) \in options.skipDirectories \/ options.depth <= 0) =>
    /\ listings = EmptyMap
    /\ counts.visits <= 1
    /\ pc = "done" =>
         /\ root[1].children = <<>>
         /\ Len(Output) = 1
         /\ Output[1].text.name = LastSegment(options.path)
         /\ Output[1].indent = <<>> /\ Output[1].prefix = ""

\* show() wrote the line of a root directory pruned by the skip set alone.
C28_Witness ==
  /\ pc = "done" /\ rootStat = "dir"
  /\ LastSegment(options.path) \in options.skipDirectories
  /\ options.depth > 0
  /\ Len(Output) = 1

\* show() wrote the line of a root directory pruned by a depth option of
\* zero or less alone.
C28_WitnessDepth ==
  /\ pc = "done" /\ rootStat = "dir"
  /\ LastSegment(options.path) \notin options.skipDirectories
  /\ options.depth < 0
  /\ Len(Output) = 1

\* -------------------------------------------------------------- termination
\* The number of visible entries read from the directories in paths.
RECURSIVE EntriesRead(_)
EntriesRead(paths) ==
  IF paths = {}
  THEN 0
  ELSE LET p == CHOOSE q \in paths : TRUE
       IN Len(Visible(listings[p].entries)) + EntriesRead(paths \ {p})

\* The recursion is no deeper than max(depth, 0), and no entry is visited
\* twice: there is one call for the root and one for each visible entry
\* read, and no path is probed a second time.
BoundedBuild ==
  /\ \A k \in 1..Len(stack) :
       /\ stack[k].currentDepth = k - 1
       /\ stack[k].currentDepth <= (IF options.depth > 0 THEN options.depth ELSE 0)
  /\ counts.visits <= 1 + EntriesRead(DOMAIN listings)
  /\ counts.probes = Cardinality(DOMAIN probes)

\* C29: when every filesystem and subprocess call returns, show() comes to
\* its end whatever the depth option, the skip set and the failures of
\* listings and git commands; meanwhile the recursion never goes deeper
\* than max(depth, 0) and every entry is visited at most once.
C29_ShowTerminates == []BoundedBuild /\ <>ShowEnded

\* show() ended after a failure, with a tree as deep as the largest depth
\* option allows.
C29_Witness ==
  /\ pc = "done" /\ faults > 0
  /\ options.depth = MaxDepthOption
  /\ \E n \in TreeNodes : n.depth = MaxDepthOption

\* -------------------------------------------------------- working directory
\* C30: after getGitStatus of src/git.ts the working directory is the one
\* from before the call, whether the call succeeded, the chdir into the
\* repository failed or a git command failed.
C30_WorkingDirectoryRestored ==
  \A i \in CallsOf("getGitStatusChdir") : calls[i].got.cwd = calls[i].cwdBefore

\* A git command failed after the call had entered another directory.
C30_Witness ==
  \E i \in CallsOf("getGitStatusChdir") :
    /\ calls[i].pathExists /\ calls[i].path # calls[i].cwdBefore
    /\ calls[i].got.logged
    /\ calls[i].got.cwd = calls[i].cwdBefore

Next ==
  \/ ShowStat
  \/ GetItemType
  \/ AttachGitStatus
  \/ ReadDirYield
  \/ ReadDirEnd
  \/ ReadDirThrow
  \/ ShowDisplay

Spec == Init /\ [][Next]_vars

\* show() called with the default of includeHidden, so that the loop meets
\* entries it passes over as well as entries it descends into.
LiveInit == Init /\ ~options.includeHidden

\* Every call show() waits for returns: a step that can be taken is taken.
LiveSpec == LiveInit /\ [][Next]_vars /\ WF_vars(Next)

FunctionNext ==
  \/ CallTestGitRepository
  \/ CallGetGitStatus
  \/ CallGetGitStatusChdir
  \/ CallDisplayItemInfoTree

\* The functions of the classifier and of the formatter, each called alone.
FunctionSpec == FunctionInit /\ [][FunctionNext]_vars
====
